---- MODULE Spec2Model ----
(***************************************************************************)
(* The outline editor of web/packages/tree-note: a document is a sequence  *)
(* of outline nodes, each with a level attribute and inline content, and   *)
(* the keyboard handlers of extensions/OutlineNode.ts (Enter, Tab,         *)
(* Shift-Tab, Backspace) rewrite it at the current selection and emit DOM  *)
(* events.                                                                 *)
(*                                                                         *)
(* Positions are the editor's document positions: a node occupies its      *)
(* content size plus an opening and a closing token, so the position       *)
(* before node i is the sum of the sizes of the nodes before it.           *)
(* A selection is a text selection [from, to] (from <= to, each end a node *)
(* index and an offset into that node's content) or the select-all         *)
(* selection, whose ends resolve in the document node itself.              *)
(***************************************************************************)
EXTENDS Integers, Sequences, FiniteSets, TLC

VARIABLES
    doc,      \* the editor's document: Seq of [level, content]
    sel,      \* the editor's selection
    cmd,      \* the handler that ran last ("initEditor" at first, "none" after
              \* the selection was moved)
    ret,      \* what that handler returned
    events,   \* the CustomEvents that handler dispatched, in order
    pre,      \* document and selection that handler started from
    ncmd,     \* number of key handlers run so far
    listeners,  \* the host's listeners on the element, in registration order
    delivered,  \* deliveries of that handler's events to the listeners, in order
    md,       \* the markdown text last read from or assigned to the element
    changes,  \* the change events that step fired: Seq of [content, markdown]
    log,      \* the types of the events that step dispatched on the element, in order
    editable, \* whether the editor is editable (the element is not read-only)
    attr,     \* the initial-content attribute the editor was built from
    \* the spike's note item (note-item.ts)
    now,            \* Date.now() at the latest keydown
    lastEnterTime,  \* the key handler's lastEnterTime
    keydowns,       \* the keydowns so far: Seq of [key, time, dispatched]
    \* the spike's notes app
    notes,      \* this.notes: Seq of [id, parent, order], local copies
    noteTree,   \* this.noteTree: parent id -> Seq of note ids
    backend,    \* the notes collection of the backend: Seq of [id, parent, order]
    handlers,   \* the create handlers waiting for the backend's answer
    done,       \* the handler that has just finished, if this step finished one
    nops        \* number of create handlers started so far

elementVars == <<doc, sel, cmd, ret, events, pre, ncmd, listeners, delivered, md,
                 changes, log, editable, attr>>
keyVars == <<now, lastEnterTime, keydowns>>
appVars == <<notes, noteTree, backend, handlers, done, nops>>

vars == <<doc, sel, cmd, ret, events, pre, ncmd, listeners, delivered, md,
          changes, log, editable, attr, now, lastEnterTime, keydowns,
          notes, noteTree, backend, handlers, done, nops>>

----------------------------------------------------------------------------
(* Program constants and bounds *)

MaxLevel == 10
DefaultLevel == 0

MaxNodes == 3
MaxText == 1
MaxCommands == 3
MaxListeners == 2
MaxKeys == 4
MaxNotes == 4
MaxOps == 3

\* the double-enter window in milliseconds
DoubleEnterMs == 500

\* a value of Date.now() when the page is opened; any time after 1970 is far
\* more than the window
StartTime == 1000

\* the parent of a root note ('' on the record, 'root' as the key of the tree)
Root == 0

\* no create handler has just finished
NoDone == [kind |-> "none", ok |-> FALSE, afterId |-> 0, parent |-> 0,
           newId |-> 0, prev |-> <<>>, shifted |-> <<>>]

\* the spike is a program of its own: while the element is looked at, its
\* state stays as it is when the page is opened on an empty collection
SpikeIdle ==
    /\ now = StartTime
    /\ lastEnterTime = 0
    /\ keydowns = <<>>
    /\ notes = <<>>
    /\ noteTree = [p \in 0..MaxNotes |-> <<>>]
    /\ backend = <<>>
    /\ handlers = <<>>
    /\ done = NoDone
    /\ nops = 0

Chars == {"x"}
InitLevels == {0, MaxLevel}
InitTexts == {<<>>, <<"a", "b">>}

----------------------------------------------------------------------------
(* Arithmetic helpers *)

Min(a, b) == IF a <= b THEN a ELSE b
Max(a, b) == IF a >= b THEN a ELSE b

----------------------------------------------------------------------------
(* Document structure *)

OutlineNodeOf(l, c) == [level |-> l, content |-> c]

\* the node the schema creates when none is given: level defaults to 0
DefaultNode == OutlineNodeOf(DefaultLevel, <<>>)

\* the document used when initial-content is absent or unparseable
DefaultContent == <<DefaultNode>>

\* documents a parseable initial-content attribute can hold
ParsedContents ==
    { <<OutlineNodeOf(l, c)>> : l \in InitLevels, c \in InitTexts }
    \cup { <<OutlineNodeOf(l1, c), OutlineNodeOf(l2, <<>>)>> :
             l1 \in InitLevels, l2 \in InitLevels, c \in InitTexts }

InitialContents == {DefaultContent} \cup ParsedContents

\* the initial-content attribute: absent, present without being JSON text, or
\* the JSON text of a document
AbsentAttr == [present |-> FALSE, parses |-> FALSE, json |-> <<>>]
InvalidAttr == [present |-> TRUE, parses |-> FALSE, json |-> <<>>]
JsonAttr(d) == [present |-> TRUE, parses |-> TRUE, json |-> d]

\* mutant: the fallback document is one nested node
InitialContentNested(a) ==
    IF a.present /\ a.parses THEN a.json ELSE <<OutlineNodeOf(1, <<>>)>>

\* the content the editor is created with
InitialContent(a) == IF a.present /\ a.parses THEN a.json ELSE DefaultContent

\* attributes the editor of the key handlers is built from
EditorAttrs == {AbsentAttr} \cup {JsonAttr(d) : d \in InitialContents \ {DefaultContent}}

NodeSize(n) == Len(n.content) + 2

RECURSIVE Before(_, _)
\* $pos.before(): the position in front of node i
Before(d, i) == IF i <= 1 THEN 0 ELSE Before(d, i - 1) + NodeSize(d[i - 1])

RECURSIVE TotalText(_)
TotalText(d) == IF d = <<>> THEN 0 ELSE Len(Head(d).content) + TotalText(Tail(d))

----------------------------------------------------------------------------
(* Selections *)

TextSel(fn, fo, tn, to) ==
    [kind |-> "text", fromNode |-> fn, fromOff |-> fo, toNode |-> tn, toOff |-> to]

AllSel == [kind |-> "all", fromNode |-> 0, fromOff |-> 0, toNode |-> 0, toOff |-> 0]

Cursor(n, o) == TextSel(n, o, n, o)

Selections(d) ==
    {AllSel} \cup
    { TextSel(fn, fo, tn, to) :
        fn \in 1..Len(d), tn \in 1..Len(d),
        fo \in 0..TotalText(d), to \in 0..TotalText(d) }

ValidSel(d, s) ==
    \/ s.kind = "all"
    \/ /\ s.kind = "text"
       /\ s.fromNode \in 1..Len(d) /\ s.toNode \in 1..Len(d)
       /\ s.fromOff \in 0..Len(d[s.fromNode].content)
       /\ s.toOff \in 0..Len(d[s.toNode].content)
       /\ \/ s.fromNode < s.toNode
          \/ s.fromNode = s.toNode /\ s.fromOff <= s.toOff

\* $from.parent.type.name === this.name
InOutlineNode(s) == s.kind = "text"

\* selection.empty
SelEmpty(s) == s.kind = "text" /\ s.fromNode = s.toNode /\ s.fromOff = s.toOff

\* $from.parentOffset (0 when $from resolves in the document node)
ParentOffset(s) == IF s.kind = "text" THEN s.fromOff ELSE 0

\* $from.parent.attrs.level || 0
CurrentLevel(d, s) == d[s.fromNode].level

----------------------------------------------------------------------------
(* Transaction steps *)

\* tr.split(pos): node n is cut at offset o; both halves keep the node's attrs
\* mutant: the node after the cut is created with default attributes
SplitAtDefaultAttrs(d, n, o) ==
    SubSeq(d, 1, n - 1)
    \o << OutlineNodeOf(d[n].level, SubSeq(d[n].content, 1, o)),
          OutlineNodeOf(DefaultLevel, SubSeq(d[n].content, o + 1, Len(d[n].content))) >>
    \o SubSeq(d, n + 1, Len(d))

SplitAt(d, n, o) ==
    SubSeq(d, 1, n - 1)
    \o << OutlineNodeOf(d[n].level, SubSeq(d[n].content, 1, o)),
          OutlineNodeOf(d[n].level, SubSeq(d[n].content, o + 1, Len(d[n].content))) >>
    \o SubSeq(d, n + 1, Len(d))

\* the selection mapped through the split: an end at the split position moves
\* to the start of the new node, an end before it stays
MapThroughSplit(s) ==
    IF SelEmpty(s)
    THEN Cursor(s.toNode + 1, 0)
    ELSE TextSel(s.fromNode, s.fromOff, s.toNode + 1, 0)

\* tr.setNodeMarkup(pos, null, {level}) on node n
\* mutant: the markup is applied to every node of the document
SetNodeMarkupAll(d, n, l) == [i \in 1..Len(d) |-> [d[i] EXCEPT !.level = l]]

SetNodeMarkup(d, n, l) == [d EXCEPT ![n].level = l]

\* the document node requires at least one outline node: a replace that
\* leaves it without children is fitted by creating the default node
FillRequired(d) == IF d = <<>> THEN <<DefaultNode>> ELSE d

\* tr.delete($from.before(), $from.after()) on node n
DeleteNode(d, n) == FillRequired(SubSeq(d, 1, n - 1) \o SubSeq(d, n + 1, Len(d)))

\* the cursor of the deleted node is moved to the nearest text position:
\* the start of the node that follows, else the end of the node before
MapThroughDelete(d, n) ==
    IF Len(d) = 1 THEN Cursor(1, 0)
    ELSE IF n < Len(d) THEN Cursor(n, 0)
    ELSE Cursor(n - 1, Len(d[n - 1].content))

----------------------------------------------------------------------------
(* Level arithmetic of the commands *)

\* mutant: the cap at the maximum depth is missing
IndentLevelUncapped(currentLevel) == currentLevel + 1

\* mutant: a Tab nests two levels
IndentLevelTwo(currentLevel) == Min(currentLevel + 2, MaxLevel)

IndentLevel(currentLevel) == Min(currentLevel + 1, MaxLevel)

\* mutant: the early return at level 0 is missing
UnindentNeverBlocked(currentLevel) == FALSE

UnindentBlocked(currentLevel) == currentLevel = 0

\* mutant: Shift-Tab moves the node back to the root level
UnindentToRoot(currentLevel) == 0

UnindentLevel(currentLevel) == Max(currentLevel - 1, 0)

----------------------------------------------------------------------------
(* Events *)

NodeCreated(pos) == [type |-> "node-created", position |-> pos]

\* mutant: the event reports the position inside the node ($from.start())
NodeIndentedAtStart(pos, newLevel) ==
    [type |-> "node-indented", position |-> pos + 1, level |-> newLevel]

NodeIndented(pos, newLevel) ==
    [type |-> "node-indented", position |-> pos, level |-> newLevel]

NodeUnindented(pos, newLevel) ==
    [type |-> "node-unindented", position |-> pos, level |-> newLevel]

\* what a host listener does when it is called
ListenerKinds == {"ok", "throws"}

\* mutant: a throwing listener ends the dispatch of the event
DeliverUntilThrow(ls, e, visible) ==
    LET stop == IF \E i \in 1..Len(ls) : ls[i] = "throws"
                THEN CHOOSE i \in 1..Len(ls) :
                        /\ ls[i] = "throws"
                        /\ \A j \in 1..(i - 1) : ls[j] # "throws"
                ELSE Len(ls)
    IN [i \in 1..stop |-> [listener |-> i, event |-> e, sees |-> visible]]

\* mutant: the listeners are called last registered first
DeliverReversed(ls, e, visible) ==
    [i \in 1..Len(ls) |-> [listener |-> Len(ls) + 1 - i, event |-> e, sees |-> visible]]

\* the event bubbles to the editor container, whose forwarding listener
\* dispatches a copy on the element: every listener registered there is
\* called once, in registration order, whether or not an earlier one threw.
\* visible is the editor's document while the listeners run.
Deliver(ls, e, visible) ==
    [i \in 1..Len(ls) |-> [listener |-> i, event |-> e, sees |-> visible]]

----------------------------------------------------------------------------
(* Markdown transcoder (tree-note.ts).  Text is a sequence of characters;  *)
(* here a node's content is its sequence of text runs, each                *)
(* [text, marks] with marks in the order the run lists them (an unmarked   *)
(* run has no marks).                                                      *)

Run(t, ms) == [text |-> t, marks |-> ms]

Spaces(k) == [i \in 1..k |-> " "]

\* the backtick character
Backtick == "BACKTICK"

\* \s, over the characters of the model
IsSpace(c) == c = " "

RECURSIVE Flatten(_)
Flatten(ss) == IF ss = <<>> THEN <<>> ELSE Head(ss) \o Flatten(Tail(ss))

\* the mark loop of nodeToText: one wrapper per mark
WrapMark(t, mark) ==
    IF mark = "bold" THEN <<"*", "*">> \o t \o <<"*", "*">>
    ELSE IF mark = "italic" THEN <<"*">> \o t \o <<"*">>
    ELSE IF mark = "code" THEN <<Backtick>> \o t \o <<Backtick>>
    ELSE t

RECURSIVE WrapMarks(_, _)
WrapMarks(t, marks) ==
    IF marks = <<>> THEN t ELSE WrapMarks(WrapMark(t, Head(marks)), Tail(marks))

NodeToText(node) ==
    Flatten([i \in 1..Len(node.content) |->
                WrapMarks(node.content[i].text, node.content[i].marks)])

\* mutant: one space per level
IndentOfOneSpace(level) == Spaces(level)

\* '  '.repeat(level)
IndentOf(level) == Spaces(2 * level)

RECURSIVE JoinLines(_)
\* lines.join('\n')
JoinLines(lines) ==
    IF lines = <<>> THEN <<>>
    ELSE IF Len(lines) = 1 THEN lines[1]
    ELSE lines[1] \o <<"\n">> \o JoinLines(Tail(lines))

ToMarkdown(json) ==
    JoinLines([i \in 1..Len(json) |->
                  IndentOf(json[i].level) \o <<"-", " ">> \o NodeToText(json[i])])

RECURSIVE SplitLines(_)
\* markdown.split('\n')
SplitLines(s) ==
    IF \E i \in 1..Len(s) : s[i] = "\n"
    THEN LET i == CHOOSE i \in 1..Len(s) :
                    s[i] = "\n" /\ \A j \in 1..(i - 1) : s[j] # "\n"
         IN <<SubSeq(s, 1, i - 1)>> \o SplitLines(SubSeq(s, i + 1, Len(s)))
    ELSE <<s>>

RECURSIVE WsRun(_, _)
\* how many whitespace characters follow each other from position j on
WsRun(s, j) == IF j <= Len(s) /\ IsSpace(s[j]) THEN 1 + WsRun(s, j + 1) ELSE 0

RECURSIVE NotRun(_, _, _)
\* how many characters other than c follow each other from position j on
NotRun(s, j, c) == IF j <= Len(s) /\ s[j] # c THEN 1 + NotRun(s, j + 1, c) ELSE 0

CharAt(s, j) == IF j \in 1..Len(s) THEN s[j] ELSE ""

\* line.match(/^(\s*)-\s+(.*)$/)
LineMatch(line) ==
    LET k == WsRun(line, 1)
        w == WsRun(line, k + 2)
    IN [ok |-> CharAt(line, k + 1) = "-" /\ w >= 1,
        indent |-> k,
        text |-> SubSeq(line, k + 2 + w, Len(line))]

\* mutant: every space of indentation is a level
LevelOfIndentLength(n) == n

\* Math.floor(indent.length / 2)
LevelOfIndent(n) == n \div 2

\* length of the match, at position i, of the pattern text.split is given
\* (two stars, one star or a backtick around one or more other characters),
\* 0 when none of its alternatives matches there
MarkMatchLen(s, i) ==
    LET r2 == NotRun(s, i + 2, "*")
        r1 == NotRun(s, i + 1, "*")
        rc == NotRun(s, i + 1, Backtick)
    IN IF /\ CharAt(s, i) = "*" /\ CharAt(s, i + 1) = "*" /\ r2 >= 1
          /\ CharAt(s, i + 2 + r2) = "*" /\ CharAt(s, i + 3 + r2) = "*"
       THEN r2 + 4
       ELSE IF CharAt(s, i) = "*" /\ r1 >= 1 /\ CharAt(s, i + 1 + r1) = "*"
       THEN r1 + 2
       ELSE IF CharAt(s, i) = Backtick /\ rc >= 1 /\ CharAt(s, i + 1 + rc) = Backtick
       THEN rc + 2
       ELSE 0

RECURSIVE Segments(_)
\* text.split(<the pattern above, captured>): unmatched text and matches in turn
Segments(s) ==
    IF \E i \in 1..Len(s) : MarkMatchLen(s, i) > 0
    THEN LET i == CHOOSE i \in 1..Len(s) :
                    /\ MarkMatchLen(s, i) > 0
                    /\ \A j \in 1..(i - 1) : MarkMatchLen(s, j) = 0
             n == MarkMatchLen(s, i)
         IN <<SubSeq(s, 1, i - 1), SubSeq(s, i, i + n - 1)>>
            \o Segments(SubSeq(s, i + n, Len(s)))
    ELSE <<s>>

StartsWith(s, p) == Len(s) >= Len(p) /\ SubSeq(s, 1, Len(p)) = p
EndsWith(s, p) == Len(s) >= Len(p) /\ SubSeq(s, Len(s) - Len(p) + 1, Len(s)) = p

\* segment.slice(a, -a)
SliceBoth(s, a) == SubSeq(s, a + 1, Len(s) - a)

\* the branch of parseTextWithMarks a segment takes
SegmentRun(seg) ==
    IF StartsWith(seg, <<"*", "*">>) /\ EndsWith(seg, <<"*", "*">>)
    THEN Run(SliceBoth(seg, 2), <<"bold">>)
    ELSE IF StartsWith(seg, <<"*">>) /\ EndsWith(seg, <<"*">>)
    THEN Run(SliceBoth(seg, 1), <<"italic">>)
    ELSE IF StartsWith(seg, <<Backtick>>) /\ EndsWith(seg, <<Backtick>>)
    THEN Run(SliceBoth(seg, 1), <<"code">>)
    ELSE Run(seg, <<>>)

ParseTextWithMarks(text) ==
    IF text = <<>> THEN <<>>
    ELSE LET kept == SelectSeq(Segments(text), LAMBDA seg : seg # <<>>)
         IN [i \in 1..Len(kept) |-> SegmentRun(kept[i])]

FromMarkdown(markdown) ==
    LET lines == SplitLines(markdown)
        matches == SelectSeq([i \in 1..Len(lines) |-> LineMatch(lines[i])],
                             LAMBDA m : m.ok)
        content == [i \in 1..Len(matches) |->
                       OutlineNodeOf(LevelOfIndent(matches[i].indent),
                                     ParseTextWithMarks(matches[i].text))]
    IN IF Len(content) > 0 THEN content ELSE <<OutlineNodeOf(0, <<>>)>>

RECURSIVE MergeRuns(_)
\* adjacent text with the same marks is one text node of the document
MergeRuns(c) ==
    IF Len(c) < 2 THEN c
    ELSE IF c[1].marks = c[2].marks
    THEN MergeRuns(<<Run(c[1].text \o c[2].text, c[1].marks)>> \o SubSeq(c, 3, Len(c)))
    ELSE <<c[1]>> \o MergeRuns(Tail(c))

\* editor.commands.setContent(json): the document built from the JSON; JSON
\* holding a text node without text is invalid content, for which the editor
\* falls back to its empty document
SetContent(json) ==
    IF \E i \in 1..Len(json) : \E k \in 1..Len(json[i].content) :
          json[i].content[k].text = <<>>
    THEN DefaultContent
    ELSE [i \in 1..Len(json) |-> OutlineNodeOf(json[i].level, MergeRuns(json[i].content))]

ContentSize(node) == Len(Flatten([i \in 1..Len(node.content) |-> node.content[i].text]))

\* editor.getJSON(): the inline content of a node is its text runs; the key
\* handlers' documents hold unmarked text only
GetJSON(d) ==
    [i \in 1..Len(d) |->
        OutlineNodeOf(d[i].level,
                      IF d[i].content = <<>> THEN <<>> ELSE <<Run(d[i].content, <<>>)>>)]

\* onUpdate: the detail of the change event for document d
ChangeEvent(d) == [content |-> GetJSON(d), markdown |-> ToMarkdown(GetJSON(d))]

\* mutant: keys are handled in a read-only editor too
KeyboardAlways(e) == TRUE

\* the view runs its key handlers only while it is editable
KeyboardEnabled(e) == e

----------------------------------------------------------------------------
(* Initial state: the editor is built from initial-content *)

Init ==
    /\ attr \in EditorAttrs
    /\ doc = InitialContent(attr)
    /\ editable = TRUE
    /\ changes = <<>>
    /\ log = <<>>
    /\ sel = Cursor(1, 0)
    /\ cmd = "initEditor"
    /\ ret = FALSE
    /\ events = <<>>
    /\ pre = [doc |-> doc, sel |-> sel]
    /\ ncmd = 0
    /\ listeners = <<>>
    /\ delivered = <<>>
    /\ md = <<>>
    /\ SpikeIdle

----------------------------------------------------------------------------
(* Host edits: the user moves the selection or types a character *)

SetSelection ==
    /\ \E s \in Selections(doc) :
          /\ ValidSel(doc, s)
          /\ s # sel
          /\ sel' = s
    /\ doc' = doc
    /\ cmd' = "none"
    /\ ret' = FALSE
    /\ events' = <<>>
    /\ pre' = [doc |-> doc', sel |-> sel']
    /\ ncmd' = ncmd
    /\ delivered' = <<>>
    /\ changes' = <<>>
    /\ log' = <<>>
    /\ UNCHANGED <<listeners, md, editable, attr, keyVars, appVars>>

InsertText ==
    /\ KeyboardEnabled(editable)
    /\ SelEmpty(sel)
    /\ TotalText(doc) < MaxText
    /\ \E c \in Chars :
          LET n == sel.fromNode
              o == sel.fromOff
              t == doc[n].content
          IN doc' = [doc EXCEPT ![n].content =
                        SubSeq(t, 1, o) \o <<c>> \o SubSeq(t, o + 1, Len(t))]
    /\ sel' = Cursor(sel.fromNode, sel.fromOff + 1)
    /\ cmd' = "insertText"
    /\ ret' = FALSE
    /\ events' = <<>>
    /\ pre' = [doc |-> doc', sel |-> sel']
    /\ ncmd' = ncmd
    /\ delivered' = <<>>
    /\ changes' = <<ChangeEvent(doc')>>
    /\ log' = <<"change">>
    /\ UNCHANGED <<listeners, md, editable, attr, keyVars, appVars>>

----------------------------------------------------------------------------
(* Key handlers *)

\* mutant: the handler claims the key although it did nothing
SwallowsKey == TRUE

\* return false: the key was not handled
NotHandled == FALSE

Started(name) ==
    /\ ncmd < MaxCommands
    /\ ncmd' = ncmd + 1
    /\ cmd' = name
    /\ pre' = [doc |-> doc, sel |-> sel]
    /\ UNCHANGED <<listeners, md, editable, attr, keyVars, appVars>>

Enter ==
    /\ Started("enter")
    /\ IF ~KeyboardEnabled(editable) \/ ~InOutlineNode(sel)
       THEN /\ ret' = NotHandled
            /\ events' = <<>>
            /\ delivered' = <<>>
            /\ changes' = <<>>
            /\ log' = <<>>
            /\ UNCHANGED <<doc, sel>>
       ELSE /\ Len(doc) < MaxNodes
            /\ LET currentLevel == CurrentLevel(doc, sel)
                   split == SplitAt(doc, sel.toNode, sel.toOff)
                   mapped == MapThroughSplit(sel)
                   newNodePos == Before(split, mapped.fromNode)
               IN /\ doc' = SetNodeMarkup(split, mapped.fromNode, currentLevel)
                  /\ sel' = mapped
                  /\ events' = <<NodeCreated(newNodePos)>>
                  \* view.dispatch has applied the transaction already
                  /\ delivered' = Deliver(listeners, NodeCreated(newNodePos), doc')
                  /\ changes' = <<ChangeEvent(doc')>>
                  \* the update is emitted inside view.dispatch, ahead of the event
                  /\ log' = <<"change", "node-created">>
            /\ ret' = TRUE

Tab ==
    /\ Started("indent")
    /\ IF ~KeyboardEnabled(editable) \/ ~InOutlineNode(sel)
       THEN /\ ret' = NotHandled
            /\ events' = <<>>
            /\ delivered' = <<>>
            /\ changes' = <<>>
            /\ log' = <<>>
            /\ UNCHANGED <<doc, sel>>
       ELSE LET currentLevel == CurrentLevel(doc, sel)
                newLevel == IndentLevel(currentLevel)
            IN /\ doc' = SetNodeMarkup(doc, sel.fromNode, newLevel)
               /\ events' = <<NodeIndented(Before(doc, sel.fromNode), newLevel)>>
               \* inside a command dispatch only marks the transaction; the
               \* editor applies it when the command returns, after the event
               /\ delivered' = Deliver(listeners,
                                    NodeIndented(Before(doc, sel.fromNode), newLevel), doc)
               /\ changes' = <<ChangeEvent(doc')>>
               \* the update is emitted when the command's transaction is applied
               /\ log' = <<"node-indented", "change">>
               /\ ret' = TRUE
               /\ UNCHANGED sel

ShiftTab ==
    /\ Started("unindent")
    /\ IF ~KeyboardEnabled(editable) \/ ~InOutlineNode(sel)
       THEN /\ ret' = NotHandled
            /\ events' = <<>>
            /\ delivered' = <<>>
            /\ changes' = <<>>
            /\ log' = <<>>
            /\ UNCHANGED <<doc, sel>>
       ELSE LET currentLevel == CurrentLevel(doc, sel)
                newLevel == UnindentLevel(currentLevel)
            IN IF UnindentBlocked(currentLevel)
               THEN /\ ret' = NotHandled
                    /\ events' = <<>>
                    /\ delivered' = <<>>
                    /\ changes' = <<>>
                    /\ log' = <<>>
                    /\ UNCHANGED <<doc, sel>>
               ELSE /\ doc' = SetNodeMarkup(doc, sel.fromNode, newLevel)
                    /\ events' = <<NodeUnindented(Before(doc, sel.fromNode), newLevel)>>
                    /\ delivered' = Deliver(listeners,
                                         NodeUnindented(Before(doc, sel.fromNode), newLevel),
                                         doc)
                    /\ changes' = <<ChangeEvent(doc')>>
                    \* the update is emitted when the command's transaction is applied
                    /\ log' = <<"node-unindented", "change">>
                    /\ ret' = TRUE
                    /\ UNCHANGED sel

\* mutant: the handler announces the removal as a structural event
BackspaceEventsCreated == <<NodeCreated(0)>>

\* the CustomEvents the Backspace handler dispatches: it has no dispatchEvent
BackspaceEvents == <<>>

Backspace ==
    /\ Started("backspace")
    /\ events' = BackspaceEvents
    /\ delivered' = <<>>
    /\ IF ~KeyboardEnabled(editable)
       THEN ret' = NotHandled /\ changes' = <<>> /\ log' = <<>> /\ UNCHANGED <<doc, sel>>
       ELSE IF ~SelEmpty(sel) \/ ParentOffset(sel) # 0
       THEN ret' = NotHandled /\ changes' = <<>> /\ log' = <<>> /\ UNCHANGED <<doc, sel>>
       ELSE IF ~InOutlineNode(sel)
       THEN ret' = NotHandled /\ changes' = <<>> /\ log' = <<>> /\ UNCHANGED <<doc, sel>>
       ELSE IF Len(doc[sel.fromNode].content) = 0
       THEN /\ doc' = DeleteNode(doc, sel.fromNode)
            /\ sel' = MapThroughDelete(doc, sel.fromNode)
            /\ changes' = <<ChangeEvent(doc')>>
            /\ log' = <<"change">>
            /\ ret' = TRUE
       ELSE ret' = NotHandled /\ changes' = <<>> /\ log' = <<>> /\ UNCHANGED <<doc, sel>>

----------------------------------------------------------------------------

Next ==
    \/ SetSelection
    \/ InsertText
    \/ Enter
    \/ Tab
    \/ ShiftTab
    \/ Backspace

Spec == Init /\ [][Next]_vars

----------------------------------------------------------------------------
(* The editor with host listeners: the default document, and listeners     *)
(* registered on the element at any time                                   *)

InitEv ==
    /\ attr = AbsentAttr
    /\ doc = InitialContent(attr)
    /\ editable = TRUE
    /\ changes = <<>>
    /\ log = <<>>
    /\ sel = Cursor(1, 0)
    /\ cmd = "initEditor"
    /\ ret = FALSE
    /\ events = <<>>
    /\ pre = [doc |-> doc, sel |-> sel]
    /\ ncmd = 0
    /\ listeners = <<>>
    /\ delivered = <<>>
    /\ md = <<>>
    /\ SpikeIdle

AddListener ==
    /\ Len(listeners) < MaxListeners
    /\ \E k \in ListenerKinds : listeners' = Append(listeners, k)
    /\ cmd' = "none"
    /\ ret' = FALSE
    /\ events' = <<>>
    /\ delivered' = <<>>
    /\ pre' = [doc |-> doc, sel |-> sel]
    /\ changes' = <<>>
    /\ log' = <<>>
    /\ UNCHANGED <<doc, sel, ncmd, md, editable, attr, keyVars, appVars>>

NextEv ==
    \/ Next
    \/ AddListener

SpecEv == InitEv /\ [][NextEv]_vars

----------------------------------------------------------------------------
(* The element's markdown property *)

\* documents the element is given as JSON
MdMarks == {<<>>, <<"bold">>, <<"italic">>, <<"code">>}
MdTexts == {<<"a">>, <<" ", "a">>, <<"*">>}
MdRuns == {Run(t, ms) : t \in MdTexts, ms \in MdMarks}
MdContents ==
    {<<>>} \cup {<<r>> : r \in MdRuns}
    \cup {<<Run(<<"a">>, p[1]), Run(<<"a">>, p[2])>> :
            p \in {q \in MdMarks \X MdMarks : q[1] # q[2]}}
MdPlain == {<<>>, <<Run(<<"a">>, <<>>)>>}
\* runs with several marks, which the editor keeps in the order of its schema
MdMultiMarks == {<<"bold", "italic">>, <<"bold", "code">>, <<"bold", "code", "italic">>}
MdDocs ==
    {<<OutlineNodeOf(l, c)>> : l \in InitLevels, c \in MdContents}
    \cup {<<OutlineNodeOf(0, <<Run(<<"a">>, ms)>>)>> : ms \in MdMultiMarks}
    \cup {<<OutlineNodeOf(l1, c1), OutlineNodeOf(l2, c2)>> :
            l1 \in {0, 1}, l2 \in {0, 1}, c1 \in MdPlain, c2 \in MdPlain}

\* markdown texts assigned to the element
MdIndents == {0, 1, 3, 2 * MaxLevel + 2}
MdPrefixes == {<<"-", " ">>, <<"-">>, <<>>}
MdBodies == {<<>>, <<"a">>, <<"*", "a", "*">>}
MdLines == {Spaces(k) \o p \o b : k \in MdIndents, p \in MdPrefixes, b \in MdBodies}
MdShortLines == {Spaces(k) \o p \o <<"a">> : k \in {0, 3}, p \in {<<"-", " ">>, <<>>}} \cup {<<>>}
\* bullet lines whose text is mark delimiters without a span
MdUnmatched == {<<"-", " ", "*">>, <<"-", " ", "*", "*">>, <<"-", " ", "a", "*">>}
MdInputs ==
    {<<>>} \cup MdLines \cup MdUnmatched
    \cup {l1 \o <<"\n">> \o l2 : l1 \in MdShortLines, l2 \in MdShortLines}

\* the element after its content property was given a document
InitMd ==
    /\ attr = AbsentAttr
    /\ doc \in MdDocs
    /\ editable = TRUE
    /\ changes = <<>>
    /\ log = <<>>
    /\ sel = Cursor(1, 0)
    /\ cmd = "none"
    /\ ret = FALSE
    /\ events = <<>>
    /\ pre = [doc |-> doc, sel |-> sel]
    /\ ncmd = 0
    /\ listeners = <<>>
    /\ delivered = <<>>
    /\ md = <<>>
    /\ SpikeIdle

\* get markdown()
GetMarkdown ==
    /\ cmd' = "getMarkdown"
    /\ pre' = [doc |-> doc, sel |-> sel]
    /\ md' = ToMarkdown(doc)
    /\ ret' = FALSE
    /\ events' = <<>>
    /\ delivered' = <<>>
    /\ changes' = <<>>
    /\ log' = <<>>
    /\ UNCHANGED <<doc, sel, listeners, ncmd, editable, attr, keyVars, appVars>>

\* set markdown(value): any text, among them the text last read
SetMarkdown ==
    /\ cmd' = "setMarkdown"
    /\ pre' = [doc |-> doc, sel |-> sel]
    /\ \E value \in MdInputs \cup {md} :
          /\ md' = value
          /\ IF value = <<>>
             THEN UNCHANGED <<doc, sel>>
             ELSE /\ doc' = SetContent(FromMarkdown(value))
                  /\ sel' = Cursor(Len(doc'), ContentSize(doc'[Len(doc')]))
    /\ ret' = FALSE
    /\ events' = <<>>
    /\ delivered' = <<>>
    \* setContent does not emit the editor's update
    /\ changes' = <<>>
    /\ log' = <<>>
    /\ UNCHANGED <<listeners, ncmd, editable, attr, keyVars, appVars>>

NextMd ==
    \/ GetMarkdown
    \/ SetMarkdown

SpecMd == InitMd /\ [][NextMd]_vars

----------------------------------------------------------------------------
(* The element's attributes and properties around the editor: built from   *)
(* any initial-content attribute, with or without the readonly attribute,   *)
(* then made read-only or editable and given new content by the host        *)

ElAttrs == {AbsentAttr, InvalidAttr, JsonAttr(<<OutlineNodeOf(MaxLevel, <<"a", "b">>)>>)}

\* documents assigned to the content property
ContentValues ==
    {DefaultContent, <<OutlineNodeOf(1, <<>>), OutlineNodeOf(0, <<"a">>)>>}

InitEl ==
    /\ attr \in ElAttrs
    /\ doc = InitialContent(attr)
    /\ editable \in BOOLEAN
    /\ changes = <<>>
    /\ log = <<>>
    /\ sel = Cursor(1, 0)
    /\ cmd = "initEditor"
    /\ ret = FALSE
    /\ events = <<>>
    /\ pre = [doc |-> doc, sel |-> sel]
    /\ ncmd = 0
    /\ listeners = <<>>
    /\ delivered = <<>>
    /\ md = <<>>
    /\ SpikeIdle

\* get readonly()
Readonly == ~editable

\* set readonly(value)
SetReadonly ==
    /\ \E value \in BOOLEAN :
          /\ editable' = ~value
          /\ cmd' = IF value THEN "setReadonlyTrue" ELSE "setReadonlyFalse"
    /\ ret' = FALSE
    /\ events' = <<>>
    /\ delivered' = <<>>
    /\ changes' = <<>>
    /\ log' = <<>>
    /\ pre' = [doc |-> doc, sel |-> sel]
    /\ UNCHANGED <<doc, sel, ncmd, listeners, md, attr, keyVars, appVars>>

\* set content(value)
SetContentValue ==
    /\ Started("setContent")
    /\ \E value \in ContentValues :
          /\ doc' = value
          /\ sel' = Cursor(Len(value), Len(value[Len(value)].content))
    /\ ret' = FALSE
    /\ events' = <<>>
    /\ delivered' = <<>>
    \* setContent does not emit the editor's update
    /\ changes' = <<>>
    /\ log' = <<>>

\* values the host sets the initial-content attribute to
NewAttrs == (ElAttrs \ {AbsentAttr}) \cup {JsonAttr(d) : d \in ContentValues}

\* mutant: invalid JSON gives the document initEditor falls back to
AttributeContentFallback(a, d) == InitialContent(a)

\* the document after the callback's try block: the parsed content, or the
\* document as it was when JSON.parse threw
AttributeContent(a, d) == IF a.parses THEN a.json ELSE d

\* attributeChangedCallback('initial-content', oldValue, newValue) with a new
\* string; two strings that are not JSON are different strings
AttributeChanged ==
    /\ ncmd < MaxCommands
    /\ ncmd' = ncmd + 1
    /\ cmd' = "attributeChanged"
    /\ pre' = [doc |-> doc, sel |-> sel]
    /\ \E newValue \in NewAttrs :
          /\ newValue.parses => newValue # attr
          /\ attr' = newValue
          /\ doc' = AttributeContent(newValue, doc)
          /\ sel' = IF newValue.parses
                    THEN Cursor(Len(doc'), Len(doc'[Len(doc')].content))
                    ELSE sel
    /\ ret' = FALSE
    /\ events' = <<>>
    /\ delivered' = <<>>
    \* setContent does not emit the editor's update
    /\ changes' = <<>>
    /\ log' = <<>>
    /\ UNCHANGED <<listeners, md, editable, keyVars, appVars>>

NextEl ==
    \/ Next
    \/ SetReadonly
    \/ SetContentValue
    \/ AttributeChanged

SpecEl == InitEl /\ [][NextEl]_vars

----------------------------------------------------------------------------
(* The spike: a note item that detects a double Enter (note-item.ts) and    *)
(* the notes app that creates notes in the backend (main.ts)               *)

\* the element is not part of the spike
ElementIdle ==
    /\ attr = AbsentAttr
    /\ doc = DefaultContent
    /\ editable = TRUE
    /\ changes = <<>>
    /\ log = <<>>
    /\ sel = Cursor(1, 0)
    /\ cmd = "initEditor"
    /\ ret = FALSE
    /\ events = <<>>
    /\ pre = [doc |-> doc, sel |-> sel]
    /\ ncmd = 0
    /\ listeners = <<>>
    /\ delivered = <<>>
    /\ md = <<>>

\* time between two keydowns, in milliseconds
Gaps == {0, 1, DoubleEnterMs - 1, DoubleEnterMs}

Keys == {"Enter", "Tab", "a"}

\* mutant: the window includes its upper end
WithinWindowInclusive(timeSinceLastEnter) ==
    timeSinceLastEnter <= DoubleEnterMs /\ timeSinceLastEnter > 0

\* timeSinceLastEnter < 500 && timeSinceLastEnter > 0
WithinWindow(timeSinceLastEnter) ==
    timeSinceLastEnter < DoubleEnterMs /\ timeSinceLastEnter > 0

InitKeys ==
    /\ ElementIdle
    /\ SpikeIdle

\* the keydown listener of setupKeyboardHandlers
KeyDown ==
    /\ Len(keydowns) < MaxKeys
    /\ \E key \in Keys, gap \in Gaps :
          /\ now' = now + gap
          /\ IF key = "Tab"
             THEN /\ keydowns' = Append(keydowns,
                        [key |-> key, time |-> now', dispatched |-> "create-child"])
                  /\ UNCHANGED lastEnterTime
             ELSE IF key = "Enter"
             THEN LET timeSinceLastEnter == now' - lastEnterTime
                  IN IF WithinWindow(timeSinceLastEnter)
                     THEN /\ lastEnterTime' = 0
                          /\ keydowns' = Append(keydowns,
                                [key |-> key, time |-> now',
                                 dispatched |-> "create-sibling"])
                     ELSE /\ lastEnterTime' = now'
                          /\ keydowns' = Append(keydowns,
                                [key |-> key, time |-> now', dispatched |-> "none"])
             ELSE /\ keydowns' = Append(keydowns,
                        [key |-> key, time |-> now', dispatched |-> "none"])
                  /\ UNCHANGED lastEnterTime
    /\ UNCHANGED <<elementVars, appVars>>

NextKeys == KeyDown

SpecKeys == InitKeys /\ [][NextKeys]_vars

\* The notes app.  A handler runs until it awaits the backend; the backend
\* answers or fails, and the handler goes on from there later, so handlers
\* that wait at the same time interleave between their awaits.

NoteOf(id, parent, order) == [id |-> id, parent |-> parent, order |-> order]

\* note.order of the note object with this id
LocalOrder(ns, id) == ns[CHOOSE k \in 1..Len(ns) : ns[k].id = id].order

\* the note object with this id gets a new order
SetOrder(ns, id, o) ==
    [k \in 1..Len(ns) |-> IF ns[k].id = id THEN [ns[k] EXCEPT !.order = o] ELSE ns[k]]

\* siblings.findIndex(n => n.id === afterId), counted from 1; 0 when not found
FindIndex(ids, id) ==
    IF \E j \in 1..Len(ids) : ids[j] = id
    THEN CHOOSE j \in 1..Len(ids) : ids[j] = id /\ \A i \in 1..(j - 1) : ids[i] # id
    ELSE 0

WithoutIndex(q, k) == SubSeq(q, 1, k - 1) \o SubSeq(q, k + 1, Len(q))

\* mutant: the group is left in the order of this.notes
InsertAtEnd(sorted, n) == Append(sorted, n)

\* n put behind the notes of the sorted list whose order is not greater
InsertByOrder(sorted, n) ==
    LET k == Cardinality({j \in 1..Len(sorted) : sorted[j].order <= n.order})
    IN SubSeq(sorted, 1, k) \o <<n>> \o SubSeq(sorted, k + 1, Len(sorted))

RECURSIVE SortByOrder(_)
\* children.sort((a, b) => a.order - b.order): notes of equal order keep
\* the order they had in the list
SortByOrder(q) ==
    IF q = <<>> THEN <<>>
    ELSE InsertByOrder(SortByOrder(SubSeq(q, 1, Len(q) - 1)), q[Len(q)])

\* buildNoteTree: the notes grouped by parent, each group sorted by order
BuildNoteTree(ns) ==
    [p \in 0..MaxNotes |->
        LET group == SortByOrder(SelectSeq(ns, LAMBDA n : n.parent = p))
        IN [j \in 1..Len(group) |-> group[j].id]]

\* the request a handler sends next and awaits: the update of the sibling its
\* loop is at, or the create once the loop is over.  The backend carries the
\* request out, or the request fails and the backend is as before.
Issue(h, ns, bk) ==
    IF h.i <= Len(h.siblings)
    THEN LET id == h.siblings[h.i]
             sent == LocalOrder(ns, id) + 1
         IN {[h |-> [h EXCEPT !.pc = "update", !.ok = ok],
              backend |-> IF ok THEN SetOrder(bk, id, sent) ELSE bk] : ok \in BOOLEAN}
    ELSE {[h |-> [h EXCEPT !.pc = "create", !.ok = ok,
                           !.newId = IF ok THEN Len(bk) + 1 ELSE 0],
           backend |-> IF ok THEN Append(bk, NoteOf(Len(bk) + 1, h.parent, h.order))
                       ELSE bk] : ok \in BOOLEAN}

\* collections the app loads, sorted by order
AppSeeds ==
    {<<>>,
     <<NoteOf(1, Root, 0)>>,
     <<NoteOf(1, Root, 0), NoteOf(2, Root, 1)>>,
     <<NoteOf(1, Root, 0), NoteOf(2, 1, 0), NoteOf(3, Root, 1)>>}

\* the app after loadNotes
InitApp ==
    /\ ElementIdle
    /\ now = StartTime
    /\ lastEnterTime = 0
    /\ keydowns = <<>>
    /\ backend \in AppSeeds
    /\ notes = backend
    /\ noteTree = BuildNoteTree(notes)
    /\ handlers = <<>>
    /\ done = NoDone
    /\ nops = 0

\* a handler from its start to its first await
Begin(kind, afterId, parentId, siblings, i, order) ==
    /\ nops < MaxOps
    /\ Len(backend) + Len(handlers) < MaxNotes
    /\ nops' = nops + 1
    /\ \E out \in Issue([kind |-> kind, pc |-> "start", ok |-> FALSE,
                         siblings |-> siblings, i |-> i, afterId |-> afterId,
                         parent |-> parentId, order |-> order, newId |-> 0,
                         failed |-> FALSE, shifted |-> <<>>], notes, backend) :
          /\ handlers' = Append(handlers, out.h)
          /\ backend' = out.backend
    /\ done' = NoDone
    /\ UNCHANGED <<notes, noteTree, elementVars, keyVars>>

\* a note item dispatched create-sibling for its note
HandleCreateSibling ==
    \E r \in 1..Len(notes) :
        LET afterId == notes[r].id
            parentId == notes[r].parent
            siblings == noteTree[parentId]
            afterIndex == FindIndex(siblings, afterId)
            order == IF afterIndex >= 1
                     THEN LocalOrder(notes, siblings[afterIndex]) + 1
                     ELSE Len(siblings)
        IN Begin("sibling", afterId, parentId, siblings, afterIndex + 1, order)

\* create-sibling whose afterId is not the id of a child of parentId, as
\* from a note item that has no note (both undefined, parent 'root')
HandleCreateSiblingNotFound ==
    LET afterId == 0
        parentId == Root
        siblings == noteTree[parentId]
        afterIndex == FindIndex(siblings, afterId)
        order == IF afterIndex >= 1
                 THEN LocalOrder(notes, siblings[afterIndex]) + 1
                 ELSE Len(siblings)
    IN Begin("sibling", afterId, parentId, siblings, afterIndex + 1, order)

\* a note item dispatched create-child for its note
HandleCreateChild ==
    \E r \in 1..Len(notes) :
        LET parentId == notes[r].id
            siblings == noteTree[parentId]
        IN Begin("child", 0, parentId, <<>>, 1, Len(siblings))

AddRootNote ==
    Begin("root", 0, Root, <<>>, 1, Len(noteTree[Root]))

\* the update a create-sibling handler awaited has been answered
ResumeUpdate ==
    /\ \E k \in 1..Len(handlers) :
          LET h == handlers[k]
              id == h.siblings[h.i]
              ns == IF h.ok THEN SetOrder(notes, id, LocalOrder(notes, id) + 1)
                    ELSE notes
              next == [h EXCEPT !.i = h.i + 1, !.failed = h.failed \/ ~h.ok,
                                !.shifted = IF h.ok THEN Append(h.shifted, id)
                                            ELSE h.shifted]
          IN /\ h.pc = "update"
             /\ notes' = ns
             /\ \E out \in Issue(next, ns, backend) :
                   /\ handlers' = [handlers EXCEPT ![k] = out.h]
                   /\ backend' = out.backend
    /\ done' = NoDone
    /\ UNCHANGED <<noteTree, nops, elementVars, keyVars>>

\* the create a handler awaited has been answered
ResumeCreate ==
    /\ \E k \in 1..Len(handlers) :
          LET h == handlers[k]
          IN /\ h.pc = "create"
             /\ handlers' = WithoutIndex(handlers, k)
             /\ IF h.ok
                THEN /\ notes' = Append(notes, NoteOf(h.newId, h.parent, h.order))
                     /\ noteTree' = BuildNoteTree(notes')
                ELSE UNCHANGED <<notes, noteTree>>
             /\ done' = [kind |-> h.kind, ok |-> h.ok /\ ~h.failed,
                         afterId |-> h.afterId, parent |-> h.parent,
                         newId |-> h.newId, prev |-> noteTree[h.parent],
                         shifted |-> h.shifted]
    /\ UNCHANGED <<backend, nops, elementVars, keyVars>>

NextApp ==
    \/ HandleCreateSibling
    \/ HandleCreateSiblingNotFound
    \/ HandleCreateChild
    \/ AddRootNote
    \/ ResumeUpdate
    \/ ResumeCreate

SpecApp == InitApp /\ [][NextApp]_vars

----------------------------------------------------------------------------
(* Properties *)

PreCur == pre.sel.fromNode
PreGoverned == InOutlineNode(pre.sel)
PreLevel == pre.doc[PreCur].level
Commands == {"enter", "indent", "unindent", "backspace"}

\* C1: every node's level stays in [0, MaxLevel] through any sequence of
\* indent, unindent and split commands, at any selection.
C1_LevelsInRange == \A i \in 1..Len(doc) : doc[i].level \in 0..MaxLevel

C1_Witness ==
    /\ cmd = "indent" /\ ret /\ ncmd = MaxCommands
    /\ PreLevel = MaxLevel
    /\ Len(doc) > 1

\* C2: indent on a current node at the maximum depth returns false and leaves
\* the document unchanged.
C2_IndentAtMaxRefused ==
    (cmd = "indent" /\ PreGoverned /\ PreLevel = MaxLevel)
        => (ret = FALSE /\ doc = pre.doc)

\* C3: unindent on a current node at level 0 returns false and leaves the
\* document unchanged; no level goes below 0.
C3_UnindentAtZero ==
    /\ (cmd = "unindent" /\ PreGoverned /\ PreLevel = 0)
          => (ret = FALSE /\ doc = pre.doc /\ events = <<>>)
    /\ \A i \in 1..Len(doc) : doc[i].level >= 0

C3_Witness ==
    /\ cmd = "unindent" /\ PreGoverned /\ PreLevel = 0
    /\ Len(pre.doc) > 1 /\ PreCur > 1

\* C4: the document always holds at least one node, and Backspace on the sole
\* remaining empty node is a no-op that leaves the document unchanged.
C4_SoleNodeKept ==
    /\ Len(doc) >= 1
    /\ (/\ cmd = "backspace"
        /\ Len(pre.doc) = 1
        /\ SelEmpty(pre.sel)
        /\ pre.doc[1].content = <<>>)
          => doc = pre.doc

C6_IndentFrame ==
    (cmd = "indent" /\ PreGoverned /\ PreLevel < MaxLevel) =>
        /\ ret = TRUE
        /\ doc = [pre.doc EXCEPT ![PreCur].level = PreLevel + 1]

C6_Witness ==
    /\ cmd = "indent" /\ PreGoverned /\ PreLevel < MaxLevel
    /\ Len(pre.doc) = 3 /\ PreCur = 2
    /\ pre.doc[1].content # <<>>

\* C7: unindent on a current node above level 0 lowers that node's level by
\* one and changes nothing else in the document.
C7_UnindentFrame ==
    (cmd = "unindent" /\ PreGoverned /\ PreLevel > 0) =>
        /\ ret = TRUE
        /\ doc = [pre.doc EXCEPT ![PreCur].level = PreLevel - 1]

C7_Witness ==
    /\ cmd = "unindent" /\ PreGoverned /\ PreLevel > 1
    /\ Len(pre.doc) = 3 /\ PreCur = 2
    /\ pre.doc[1].content # <<>>

WellNested(d) ==
    \A i \in 1..Len(d) :
        /\ d[i].level >= 0
        /\ d[i].level <= (IF i = 1 THEN 0 ELSE d[i - 1].level + 1)

C9_NoEventOnNoOp ==
    (\/ cmd = "indent" /\ PreGoverned /\ PreLevel = MaxLevel
     \/ cmd = "unindent" /\ PreGoverned /\ PreLevel = 0
     \/ cmd \in Commands /\ ~PreGoverned)
        => events = <<>>

\* C10: a successful indent emits exactly one node-indented event and a
\* successful unindent exactly one node-unindented event, carrying the node's
\* level after the command and the position of that node.
C10_LevelEvents ==
    /\ (cmd = "indent" /\ ret) =>
          events = << [type |-> "node-indented",
                       position |-> Before(doc, PreCur),
                       level |-> doc[PreCur].level] >>
    /\ (cmd = "unindent" /\ ret) =>
          events = << [type |-> "node-unindented",
                       position |-> Before(doc, PreCur),
                       level |-> doc[PreCur].level] >>

C10_Witness ==
    /\ cmd = "unindent" /\ ret
    /\ PreCur = 2 /\ pre.doc[1].content # <<>>
    /\ Len(events) = 1 /\ events[1].position > 2

RemoveAt(d, n) == SubSeq(d, 1, n - 1) \o SubSeq(d, n + 1, Len(d))

\* C11: a successful split emits exactly one node-created event, whose
\* position is the position of the newly inserted node, not of the original.
C11_CreatedAtNewNode ==
    (cmd = "enter" /\ ret) =>
        events = << [type |-> "node-created",
                     position |-> Before(doc, pre.sel.toNode + 1)] >>

\* C12: with the selection outside an outline node, split, indent, unindent
\* and merge-on-delete return false, leave the document alone and emit nothing.
C12_OutsideNodeRefused ==
    (cmd \in Commands /\ ~PreGoverned) =>
        /\ ret = FALSE
        /\ doc = pre.doc
        /\ events = <<>>

C12_Witness ==
    /\ cmd = "backspace" /\ ~PreGoverned
    /\ ncmd = MaxCommands
    /\ Len(doc) = 2 /\ doc[2].content = <<>>

\* C13: Backspace with a collapsed selection at offset 0 of an empty node
\* removes exactly that node and keeps every other node as it was (on the sole
\* remaining node it is a no-op, as C4 has it); in every other case it returns
\* false and the document is unchanged.
C13_MergeEffect ==
    cmd = "backspace" =>
        IF /\ SelEmpty(pre.sel)
           /\ pre.sel.fromOff = 0
           /\ pre.doc[PreCur].content = <<>>
        THEN IF Len(pre.doc) = 1
             THEN doc = pre.doc
             ELSE ret = TRUE /\ doc = RemoveAt(pre.doc, PreCur)
        ELSE ret = FALSE /\ doc = pre.doc

\* C19: when a structural event is delivered the command's mutation has been
\* applied, so every listener reads the document as it is after the command,
\* and a throwing listener does not undo it.
C19_MutationBeforeEvent ==
    \A k \in 1..Len(delivered) : delivered[k].sees = doc

\* C20: a listener that throws does not keep the event from any listener
\* registered after it, and the command still returns true.
C20_ThrowIsolated ==
    (cmd \in Commands /\ events # <<>>) =>
        /\ ret = TRUE
        /\ Len(delivered) = Len(listeners) * Len(events)
        /\ \A i \in 1..Len(listeners) :
              \E k \in 1..Len(delivered) :
                  delivered[k].listener = i /\ delivered[k].event = events[1]

C20_Witness ==
    /\ cmd = "enter" /\ events # <<>>
    /\ listeners = <<"throws", "ok">>
    /\ Len(delivered) = 2

\* the bullet pattern as the claims word it: optional leading whitespace,
\* "-", at least one whitespace, rest
LeadingSpaces(line) ==
    CHOOSE k \in 0..Len(line) :
        /\ \A j \in 1..k : line[j] = " "
        /\ (k < Len(line) => line[k + 1] # " ")

BulletLine(line) ==
    LET k == LeadingSpaces(line)
    IN k + 2 <= Len(line) /\ line[k + 1] = "-" /\ line[k + 2] = " "

BulletLines(text) == SelectSeq(SplitLines(text), BulletLine)

SupportedRun(r) == r.marks \in {<<>>, <<"bold">>, <<"italic">>, <<"code">>}

Supported(d) ==
    \A i \in 1..Len(d) :
        /\ d[i].level \in 0..MaxLevel
        /\ \A k \in 1..Len(d[i].content) : SupportedRun(d[i].content[k])

\* C14: for every document whose runs carry at most one mark (bold, italic
\* or code) each, importing the markdown produced by export yields a document
\* equal to the original (node count, levels, run boundaries, text, marks).
C14_RoundTrip ==
    (cmd = "setMarkdown" /\ Supported(pre.doc) /\ md = ToMarkdown(pre.doc)) =>
        doc = pre.doc

\* C15: export emits exactly one line per outline node in document order,
\* each line being two spaces repeated level times, then "- ", then the
\* rendered inline content, the lines joined by a single newline.
C15_ExportFormat ==
    cmd = "getMarkdown" =>
        LET lines == SplitLines(md)
        IN /\ Len(lines) = Len(doc)
           /\ Len(md) = Len(Flatten(lines)) + Len(doc) - 1
           /\ \A i \in 1..Len(doc) :
                 lines[i] = [j \in 1..(2 * doc[i].level) |-> " "]
                            \o <<"-", " ">> \o NodeToText(doc[i])

C15_Witness ==
    /\ cmd = "getMarkdown"
    /\ doc = <<OutlineNodeOf(0, <<Run(<<"a">>, <<>>)>>),
               OutlineNodeOf(1, <<Run(<<"a">>, <<>>)>>)>>
    /\ md = <<"-", " ", "a", "\n", " ", " ", "-", " ", "a">>

\* C16: after a markdown import of any input string the document is valid:
\* it has at least one node and every node's level is within [0, 10].
C16_ImportValid ==
    cmd = "setMarkdown" =>
        /\ Len(doc) >= 1
        /\ \A i \in 1..Len(doc) : doc[i].level \in 0..MaxLevel

\* C17: importing markdown text that contains no line matching the bullet
\* pattern (the empty string included) results in the document being a single
\* empty node at level 0.
C17_NoBulletGivesEmpty ==
    (cmd = "setMarkdown" /\ BulletLines(md) = <<>>) =>
        doc = <<[level |-> 0, content |-> <<>>]>>

\* C18: import creates one node per input line that matches the bullet
\* pattern, in input order, with level = floor(number of leading whitespace
\* characters / 2); lines that do not match produce no node and do not affect
\* the other nodes.
C18_NodePerBulletLine ==
    (cmd = "setMarkdown" /\ BulletLines(md) # <<>>) =>
        LET bullets == BulletLines(md)
            json == FromMarkdown(md)
        IN /\ Len(json) = Len(bullets)
           /\ \A i \in 1..Len(bullets) :
                 /\ json[i].level = LeadingSpaces(bullets[i]) \div 2
                 /\ json[i] = FromMarkdown(bullets[i])[1]

C18_Witness ==
    /\ cmd = "setMarkdown"
    /\ md = <<" ", " ", " ", "-", " ", "a", "\n", "a">>
    /\ doc = <<OutlineNodeOf(1, <<Run(<<"a">>, <<>>)>>)>>

\* C21: each structural event is delivered to all currently registered
\* listeners in registration order, and all deliveries are complete when the
\* command call has returned.
C21_DeliveredInOrder ==
    cmd \in Commands =>
        IF events = <<>>
        THEN delivered = <<>>
        ELSE /\ Len(events) = 1
             /\ Len(delivered) = Len(listeners)
             /\ \A k \in 1..Len(delivered) :
                   /\ delivered[k].listener = k
                   /\ delivered[k].event = events[1]

C21_Witness ==
    /\ cmd = "unindent" /\ ret
    /\ Len(listeners) = MaxListeners
    /\ Len(delivered) = MaxListeners
    /\ delivered[1].listener = 1

\* C22: every command that changes the document (text edit, split, indent,
\* unindent, merge, content replacement) fires a change event whose
\* detail.content is the document after the change and whose detail.markdown
\* is the markdown export of that same content.
C22_ChangeEventFired ==
    (\/ cmd = "insertText"
     \/ cmd \in Commands \cup {"setContent"} /\ doc # pre.doc)
        => /\ Len(changes) = 1
           /\ changes[1].content = GetJSON(doc)
           /\ changes[1].markdown = ToMarkdown(changes[1].content)

\* C23: the editor's initial document is exactly one empty outline node at
\* level 0 when the initial-content attribute is absent or is not parseable
\* JSON.
C23_DefaultInitialDocument ==
    (cmd = "initEditor" /\ (~attr.present \/ ~attr.parses))
        => doc = <<[level |-> 0, content |-> <<>>]>>

C23_Witness ==
    /\ cmd = "initEditor"
    /\ attr.present /\ ~attr.parses
    /\ ~editable
    /\ Len(doc) = 1

C28_NextLevelChangeInNewNode ==
    [][(cmd = "enter" /\ ret /\ cmd' \in {"indent", "unindent"}) =>
          /\ Len(doc') = Len(doc)
          /\ \A i \in 1..Len(doc) : i # pre.sel.toNode + 1 => doc'[i] = doc[i]]_vars

\* C29: indent and unindent are mutually inverse on the document: for a
\* current node at level L < 10, indent followed by unindent restores the
\* document exactly, and for L > 0, unindent followed by indent restores it;
\* the two emitted events carry levels L+1 then L (resp. L-1 then L).
C29_IndentUnindentInverse ==
    [][/\ (cmd = "indent" /\ ret /\ PreLevel < MaxLevel /\ cmd' = "unindent") =>
             /\ ret'
             /\ doc' = pre.doc
             /\ Len(events) = 1 /\ events[1].type = "node-indented"
             /\ events[1].level = PreLevel + 1
             /\ Len(events') = 1 /\ events'[1].type = "node-unindented"
             /\ events'[1].level = PreLevel
       /\ (cmd = "unindent" /\ ret /\ PreLevel > 0 /\ cmd' = "indent") =>
             /\ ret'
             /\ doc' = pre.doc
             /\ Len(events) = 1 /\ events[1].type = "node-unindented"
             /\ events[1].level = PreLevel - 1
             /\ Len(events') = 1 /\ events'[1].type = "node-indented"
             /\ events'[1].level = PreLevel]_vars

\* a level-1 sole node two handlers after the editor was built can only come
\* from Tab on the level-0 sole node; Shift-Tab has then taken it back
C29_Witness ==
    /\ cmd = "unindent" /\ ret /\ ncmd = 2
    /\ Len(doc) = 1 /\ Len(pre.doc) = 1
    /\ pre.doc[1].level = 1 /\ doc[1].level = 0
    /\ events = << [type |-> "node-unindented", position |-> 0, level |-> 0] >>

\* C30: when a text run carries several of the marks bold, italic and code,
\* export nests the wrappers with bold outermost.
C30_BoldOutermost ==
    cmd = "getMarkdown" =>
        \A i \in 1..Len(doc) :
            (/\ Len(doc[i].content) = 1
             /\ Len(doc[i].content[1].marks) > 1
             /\ doc[i].content[1].marks[1] = "bold"
             /\ Len(doc) = 1) =>
                LET r == doc[i].content[1]
                    line == SubSeq(md, 2 * doc[i].level + 3, Len(md))
                IN /\ SubSeq(line, 1, 2) = <<"*", "*">>
                   /\ SubSeq(line, Len(line) - 1, Len(line)) = <<"*", "*">>
                   /\ SubSeq(line, 3, Len(line) - 2) = WrapMarks(r.text, Tail(r.marks))

\* the Enter keydowns, in order
EnterKeydowns == SelectSeq(keydowns, LAMBDA k : k.key = "Enter")

\* C26: a create-sibling event is dispatched on an Enter keydown exactly when
\* the previous Enter did not itself dispatch one and occurred more than 0 and
\* less than 500 ms earlier; so n Enters in rapid succession dispatch
\* floor(n/2) create-sibling events and a single Enter dispatches none.
C26_DoubleEnter ==
    LET E == EnterKeydowns
        rapid == \A k \in 2..Len(E) :
                    E[k].time - E[k - 1].time > 0 /\ E[k].time - E[k - 1].time < 500
        fired == {k \in 1..Len(E) : E[k].dispatched = "create-sibling"}
    IN /\ \A k \in 1..Len(E) :
             (E[k].dispatched = "create-sibling") <=>
                 /\ k > 1
                 /\ E[k - 1].dispatched # "create-sibling"
                 /\ E[k].time - E[k - 1].time > 0
                 /\ E[k].time - E[k - 1].time < 500
       /\ rapid => Cardinality(fired) = Len(E) \div 2
       /\ \A k \in 1..Len(keydowns) :
             keydowns[k].key # "Enter" => keydowns[k].dispatched # "create-sibling"

C26_Witness ==
    /\ Len(EnterKeydowns) = 4
    /\ \A k \in 2..4 : EnterKeydowns[k].time - EnterKeydowns[k - 1].time \in {1, 499}
    /\ EnterKeydowns[2].dispatched = "create-sibling"
    /\ EnterKeydowns[3].dispatched = "none"
    /\ EnterKeydowns[4].dispatched = "create-sibling"

\* C27: a successful create-sibling creates a new note with the same parent
\* as the reference note and places it immediately after the reference note
\* in that parent's order-sorted child list, keeping the relative order of all
\* pre-existing siblings.
C27_SiblingPlacedAfter ==
    (done.kind = "sibling" /\ done.ok /\ FindIndex(done.prev, done.afterId) >= 1) =>
        LET children == noteTree[done.parent]
            r == FindIndex(children, done.afterId)
            n == FindIndex(children, done.newId)
        IN /\ r >= 1
           /\ n = r + 1
           /\ WithoutIndex(children, n) = done.prev

\* the text of a bullet line: what follows the "-" and its whitespace
BulletText(line) ==
    LET k == LeadingSpaces(line)
        rest == SubSeq(line, k + 2, Len(line))
    IN SubSeq(rest, LeadingSpaces(rest) + 1, Len(rest))

\* no two equal mark delimiters with anything between them
NoSpan(text) ==
    \A i \in 1..Len(text) : \A j \in (i + 2)..Len(text) :
        ~(text[i] = text[j] /\ text[i] \in {"*", Backtick})

\* C31: on import, text of a bullet line that is not inside a matched bold,
\* italic or code span becomes an unmarked run with exactly that text; a line
\* whose text has no matched span at all (such as "*" or "**") gives a node
\* holding that text as its one unmarked run.
C31_UnmatchedTextUnmarked ==
    cmd = "setMarkdown" =>
        LET bullets == BulletLines(md)
        IN \A i \in 1..Len(bullets) :
              LET text == BulletText(bullets[i])
              IN (text # <<>> /\ NoSpan(text)) =>
                    /\ Len(doc) = Len(bullets)
                    /\ doc[i].content = <<Run(text, <<>>)>>

\* C32: levels are changed only by indent and unindent: split and
\* merge-on-delete never change the level of a node that exists both before
\* and after the command (the nodes before the cut or the removed node keep
\* their place, the nodes after it move by one), and indent and unindent never
\* change the number of nodes or any node's content.
C32_LevelsOnlyByIndent ==
    /\ (cmd = "enter" /\ ret) =>
          /\ Len(doc) = Len(pre.doc) + 1
          /\ \A i \in 1..Len(pre.doc) :
                doc[IF i <= pre.sel.toNode THEN i ELSE i + 1].level = pre.doc[i].level
    /\ (cmd = "backspace" /\ ret /\ Len(pre.doc) > 1) =>
          /\ Len(doc) = Len(pre.doc) - 1
          /\ \A i \in 1..Len(pre.doc) :
                /\ i < PreCur => doc[i].level = pre.doc[i].level
                /\ i > PreCur => doc[i - 1].level = pre.doc[i].level
    /\ (cmd \in {"enter", "backspace"} /\ ~ret) => doc = pre.doc
    /\ cmd \in {"indent", "unindent"} =>
          /\ Len(doc) = Len(pre.doc)
          /\ \A i \in 1..Len(doc) : doc[i].content = pre.doc[i].content

C32_Witness ==
    /\ cmd = "enter"
    /\ ret
    /\ Len(doc) = 3
    /\ ~SelEmpty(pre.sel)
    /\ pre.sel.toNode = 1
    /\ doc[1].level = 1
    /\ doc[3].level = MaxLevel

\* C33: changing the initial-content attribute to a string that is not valid
\* JSON leaves the current document unchanged (and the callback returns
\* normally); changing it to valid JSON replaces the whole document with that
\* content.
C33_AttributeChange ==
    cmd = "attributeChanged" =>
        IF attr.parses THEN doc = attr.json ELSE doc = pre.doc /\ sel = pre.sel

C33_Witness ==
    /\ cmd = "attributeChanged"
    /\ ~attr.parses
    /\ ncmd = MaxCommands
    /\ Len(doc) = 2
    /\ doc[2].level = 1
    /\ doc # InitialContent(attr)

C33_WitnessJson ==
    /\ cmd = "attributeChanged"
    /\ attr.parses
    /\ Len(doc) = 2
    /\ Len(pre.doc) = 1
    /\ pre.doc[1].level = MaxLevel

\* C34: for a command that both changes the document and emits a structural
\* event (split, indent, unindent), the change event of that mutation is
\* dispatched before the node-created / node-indented / node-unindented event
\* of the same command, and both within the command.
C34_ChangeBeforeNodeEvent ==
    (cmd \in {"enter", "indent", "unindent"} /\ ret /\ events # <<>>) =>
        log = <<"change", events[1].type>>

\* C35: merge-on-delete emits none of the structural events (node-created,
\* node-indented, node-unindented), whether or not it removes a node.
C35_MergeEmitsNoStructuralEvent ==
    cmd = "backspace" =>
        /\ events = <<>>
        /\ delivered = <<>>
        /\ \A k \in 1..Len(log) : log[k] = "change"

C35_Witness ==
    /\ cmd = "backspace"
    /\ ret
    /\ Len(pre.doc) = MaxNodes
    /\ Len(doc) = MaxNodes - 1
    /\ log = <<"change">>
    /\ Len(listeners) = MaxListeners

\* C36: after any sequence of add-root, create-child and create-sibling
\* operations (failed backend calls and overlapping handlers included), the
\* notes sharing one parent have pairwise distinct order values.
C36_DistinctOrders ==
    handlers = <<>> =>
        \A i \in 1..Len(notes) : \A j \in 1..Len(notes) :
            (i # j /\ notes[i].parent = notes[j].parent) =>
                notes[i].order # notes[j].order

\* C37: whenever no create handler is in flight, every note's locally held
\* order equals the order last stored for it in the backend, even when two
\* create-sibling handlers for the same parent overlap or a backend update
\* fails.
C37_LocalOrderIsBackendOrder ==
    handlers = <<>> =>
        \A i \in 1..Len(notes) : notes[i].order = backend[notes[i].id].order

\* C38: create-sibling with a reference note that is not found among the
\* given parent's children appends the new note at the end of that parent's
\* children and does not change the order of any existing sibling.
C38_NotFoundAppends ==
    (done.kind = "sibling" /\ done.ok /\ FindIndex(done.prev, done.afterId) = 0) =>
        LET children == noteTree[done.parent]
        IN /\ children # <<>>
           /\ children[Len(children)] = done.newId
           /\ done.shifted = <<>>

\* buildNoteTree has just run: at the load and when a create has returned
JustBuilt == nops = 0 \/ (done.kind # "none" /\ done.newId # 0)

\* C39: after buildNoteTree every loaded note appears in exactly one group
\* (keyed by its parent id, or 'root' when it has no parent) and every group
\* is sorted by ascending order; a failed create leaves the local note list
\* without the new note.
C39_NoteTreeGroupsSorted ==
    /\ JustBuilt =>
          /\ \A i \in 1..Len(notes) : \A p \in DOMAIN noteTree :
                Cardinality({j \in 1..Len(noteTree[p]) : noteTree[p][j] = notes[i].id})
                    = IF p = notes[i].parent THEN 1 ELSE 0
          /\ \A p \in DOMAIN noteTree :
                /\ \A j \in 1..Len(noteTree[p]) :
                      \E i \in 1..Len(notes) : notes[i].id = noteTree[p][j]
                /\ \A j \in 1..(Len(noteTree[p]) - 1) :
                      LocalOrder(notes, noteTree[p][j])
                          <= LocalOrder(notes, noteTree[p][j + 1])
    /\ (done.kind # "none" /\ done.newId = 0) =>
          /\ noteTree[done.parent] = done.prev
          /\ \A i \in 1..Len(notes) :
                /\ notes[i].id \in 1..Len(backend)
                /\ \A j \in 1..Len(notes) : notes[j].id = notes[i].id => j = i

C39_Witness ==
    /\ done.kind = "sibling"
    /\ done.ok
    /\ done.afterId = 1
    /\ noteTree[Root] = <<1, 3, 2>>
    /\ Len(notes) = 3
    /\ notes[3].id = 3

C39_WitnessFailedCreate ==
    /\ done.kind = "child"
    /\ done.newId = 0
    /\ Len(notes) = 2
    /\ nops = MaxOps

====
